---- MODULE Spec2Model ----
(***************************************************************************)
(* A model of AMIHTTPClient (src/src/client.js): the command builder that  *)
(* substitutes the placeholders of a command template, the executor that   *)
(* races the transport against a timer and classifies the response, and    *)
(* the session wrappers built on it.                                       *)
(*                                                                         *)
(* A text is a sequence of one-character strings, so that the regular      *)
(* expression and the escaping can be computed character by character.     *)
(***************************************************************************)
EXTENDS Integers, Sequences, FiniteSets, TLC

(***************************************************************************)
(* Bounds of the model.                                                    *)
(***************************************************************************)
\* the longest command template, counted in pieces of TemplatePieces
MaxPieces == 3
\* the longest parameter sequence a caller supplies
MaxParams == 2
\* the longest string parameter value of the escaping specification
MaxValueLen == 3
\* the largest number of informational, and of error, messages of an envelope
MaxMsgs == 2

(***************************************************************************)
(* Characters.                                                             *)
(***************************************************************************)
BS == "\\"
NL == "\n"
DQ == "\""
TAB == "\t"

Letters == {"a", "b", "c", "d", "e", "f", "g", "h", "i", "j", "k", "l", "m", "n", "o", "p", "q", "r", "s", "t", "u", "v", "w", "x", "y", "z",
            "A", "B", "C", "D", "E", "F", "G", "H", "I", "J", "K", "L", "M", "N", "O", "P", "Q", "R", "S", "T", "U", "V", "W", "X", "Y", "Z"}
Digits == {"0", "1", "2", "3", "4", "5", "6", "7", "8", "9"}

\* [a-zA-Z]
IsLetter(c) == c \in Letters
\* [a-zA-Z0-9]
IsAlnum(c) == c \in Letters \cup Digits
\* \w is [A-Za-z0-9_], \W is its complement
IsWordChar(c) == c \in Letters \cup Digits \cup {"_"}
IsNonWord(c) == ~IsWordChar(c)
\* the characters String.prototype.trim removes
IsSpace(c) == c \in {" ", NL, TAB}

RECURSIVE Flatten(_)
Flatten(ss) == IF ss = <<>> THEN <<>> ELSE Head(ss) \o Flatten(Tail(ss))

\* all sequences over S of length at most n
SeqsUpTo(S, n) == UNION {[1..k -> S] : k \in 0..n}

(***************************************************************************)
(* COMMAND BUILDER: execute, lines 114-121.                                *)
(***************************************************************************)

(* A parameter value: its JavaScript type and its text (the characters of *)
(* a string, the decimal digits of a number).                             *)
Str(t) == [type |-> "string", text |-> t]
Num(t) == [type |-> "number", text |-> t]
Null == [type |-> "null", text |-> <<>>]
Undefined == [type |-> "undefined", text |-> <<>>]

\* (command || '').trim(): the leading and the trailing white space go
RECURSIVE TrimLeft(_)
TrimLeft(s) == IF s # <<>> /\ IsSpace(Head(s)) THEN TrimLeft(Tail(s)) ELSE s

RECURSIVE TrimRight(_)
TrimRight(s) ==
    IF s # <<>> /\ IsSpace(s[Len(s)]) THEN TrimRight(SubSeq(s, 1, Len(s) - 1)) ELSE s

Trim(s) == TrimRight(TrimLeft(s))

\* the first position >= i of s that holds no \W character (Len(s) + 1 if none)
RECURSIVE SkipNonWord(_, _)
SkipNonWord(s, i) == IF i <= Len(s) /\ IsNonWord(s[i]) THEN SkipNonWord(s, i + 1) ELSE i

\* the first position >= i of s that holds no [a-zA-Z0-9] character
RECURSIVE SkipAlnum(_, _)
SkipAlnum(s, i) == IF i <= Len(s) /\ IsAlnum(s[i]) THEN SkipAlnum(s, i + 1) ELSE i

SetMax(S) == CHOOSE m \in S : \A o \in S : o <= m

\* #paramRegExp, tried at position i of s: a dash, \W*, the name (a letter, then
\* letters and digits), \W*, an equals sign, \W*, a question mark.  A \W* cannot
\* stop before a non-word character that the next piece of the pattern
\* refuses, so the name starts at the first word character after the dash and
\* is the whole run of letters and digits there; the two greedy \W* around the
\* equals sign then end the match at the last question mark of the run of
\* non-word characters that follows the name, if an equals sign precedes it
\* in that run.
MatchAt(s, i) ==
    LET j == SkipNonWord(s, i + 1)
        k == SkipAlnum(s, j)
        e == SkipNonWord(s, k)
        qs == {q \in k..(e - 1) : s[q] = "?" /\ \E p \in k..(q - 1) : s[p] = "="}
        ok == s[i] = "-" /\ j <= Len(s) /\ IsLetter(s[j]) /\ qs # {}
    IN  [ok |-> ok,
         name |-> IF ok THEN SubSeq(s, j, k - 1) ELSE <<>>,
         end |-> IF ok THEN SetMax(qs) ELSE i]

\* a plausible slip: an escaping that forgets the backslash itself
EscapeWithoutBackslash(c) ==
    CASE c = DQ -> <<BS, DQ>>
      [] c = NL -> <<BS, "n">>
      [] c = TAB -> <<BS, "t">>
      [] OTHER -> <<c>>

\* JSON.stringify's QuoteJSONString, for one character
JSONEscapeChar(c) ==
    CASE c = DQ -> <<BS, DQ>>
      [] c = BS -> <<BS, BS>>
      [] c = NL -> <<BS, "n">>
      [] c = TAB -> <<BS, "t">>
      [] OTHER -> <<c>>

RECURSIVE JSONEscape(_)
JSONEscape(t) ==
    IF Len(t) = 0 THEN <<>>
    ELSE IF Len(t) = 1 THEN JSONEscapeChar(t[1])
    ELSE LET h == Len(t) \div 2
         IN  JSONEscape(SubSeq(t, 1, h)) \o JSONEscape(SubSeq(t, h + 1, Len(t)))

\* JSON.stringify(rawValue), as the template literal of lines 118-119 prints it
JSONStringify(v) ==
    CASE v.type = "string" -> <<DQ>> \o JSONEscape(v.text) \o <<DQ>>
      [] v.type = "number" -> v.text
      [] v.type = "null" -> <<"n", "u", "l", "l">>
      [] OTHER -> <<"u", "n", "d", "e", "f", "i", "n", "e", "d">>

\* lines 118-119: what replaces the placeholder named y
Replacement(y, rawValue) ==
    IF rawValue.type = "string"
    THEN <<"-">> \o y \o <<"=">> \o JSONStringify(rawValue)
    ELSE <<"-">> \o y \o <<"=", DQ>> \o JSONStringify(rawValue) \o <<DQ>>

\* a plausible slip: params.pop() for params.shift()
ShiftFromBack(ps) ==
    IF ps = <<>> THEN [value |-> Undefined, rest |-> <<>>]
    ELSE [value |-> ps[Len(ps)], rest |-> SubSeq(ps, 1, Len(ps) - 1)]

\* line 116, params.shift(): the first element, and the array without it
Shift(ps) ==
    IF ps = <<>> THEN [value |-> Undefined, rest |-> <<>>]
    ELSE [value |-> Head(ps), rest |-> Tail(ps)]

SetMin(S) == CHOOSE m \in S : \A o \in S : m <= o

(* String.prototype.replace with the global #paramRegExp, from position i: *)
(* the matches are found left to right in the original text, what replaces *)
(* a match is not scanned again.  subs lists, for every call of the        *)
(* callback, the name it was given and the value it shifted.               *)
RECURSIVE ReplaceFrom(_, _, _)
ReplaceFrom(s, i, ps) ==
    LET starts == {j \in i..Len(s) : MatchAt(s, j).ok} IN
    IF starts = {} THEN [out |-> SubSeq(s, i, Len(s)), params |-> ps, subs |-> <<>>]
    ELSE LET j == SetMin(starts)
             m == MatchAt(s, j)
             sh == Shift(ps)
             rest == ReplaceFrom(s, m.end + 1, sh.rest)
         IN  [out |-> SubSeq(s, i, j - 1) \o Replacement(m.name, sh.value) \o rest.out,
              params |-> rest.params,
              subs |-> <<[name |-> m.name, value |-> sh.value]>> \o rest.subs]

\* a plausible slip: the pattern without its g flag, so that replace stops
\* after the first match
SubstituteFirstOnly(cmd, ps) ==
    LET s == Trim(cmd)
        starts == {j \in 1..Len(s) : MatchAt(s, j).ok}
    IN  IF starts = {} THEN [out |-> s, params |-> ps, subs |-> <<>>]
        ELSE LET j == SetMin(starts)
                 m == MatchAt(s, j)
                 sh == Shift(ps)
             IN  [out |-> SubSeq(s, 1, j - 1) \o Replacement(m.name, sh.value)
                          \o SubSeq(s, m.end + 1, Len(s)),
                  params |-> sh.rest,
                  subs |-> <<[name |-> m.name, value |-> sh.value]>>]

\* lines 114-121
Substitute(cmd, ps) == ReplaceFrom(Trim(cmd), 1, ps)

(* The builder as a state machine.  command and params are execute's two    *)
(* variables of these names: the substitution reassigns the first and      *)
(* shifts the second, which is the caller's own array.  template and       *)
(* supplied keep what the caller passed, subs what the callback did.       *)
(* options holds the converter and the extras the caller passed, request   *)
(* what lines 125-142 make of them and of the substituted command.         *)
VARIABLES command, params, template, supplied, subs, built, options, request

builderVars == <<command, params, template, supplied, subs, built, options, request>>

\* options without converter and without extras
NoOptions == [converter |-> <<>>, extras |-> <<>>]

\* the request of a call that has not built it yet
NoRequest == [ready |-> FALSE, data |-> <<>>, body |-> <<>>, url |-> <<>>, json |-> FALSE]

\* the pieces command templates are made of
TemplatePieces ==
    {<<"-", "a", "=", "?">>, <<"-", " ", "b", " ", "=", " ", "?">>,
     <<" ", "x", "=", "?">>, <<"?">>}

Templates == {Flatten(ps) : ps \in SeqsUpTo(TemplatePieces, MaxPieces)}

\* the values the parameters of a command are drawn from
ParamValues ==
    {Str(<<>>), Str(<<"v">>), Str(<<"?">>), Str(<<"-">>),
     Str(<<"-", "a", "=", "?">>), Num(<<"5">>)}

\* the characters string values are made of in the escaping specification
ValueAlphabet == {BS, NL, DQ, "n", "a"}

BuilderIdle ==
    /\ command = <<>> /\ params = <<>> /\ template = <<>> /\ supplied = <<>>
    /\ subs = <<>> /\ built = FALSE
    /\ options = NoOptions /\ request = NoRequest

\* a caller about to execute a template with a parameter sequence
BuildInputs ==
    /\ template \in Templates
    /\ supplied \in SeqsUpTo(ParamValues, MaxParams)
    /\ command = template
    /\ params = supplied
    /\ subs = <<>>
    /\ built = FALSE
    /\ options = NoOptions
    /\ request = NoRequest

\* a caller about to execute -a=? with one string parameter
EscapeInputs ==
    /\ template = <<"-", "a", "=", "?">>
    /\ supplied \in {<<Str(t)>> : t \in SeqsUpTo(ValueAlphabet, MaxValueLen)}
    /\ command = template
    /\ params = supplied
    /\ subs = <<>>
    /\ built = FALSE
    /\ options = NoOptions
    /\ request = NoRequest

\* lines 114-121: command = (command || '').trim().replace(...)
BuildCommand ==
    /\ ~built
    /\ LET r == Substitute(command, params) IN
         /\ command' = r.out
         /\ params' = r.params
         /\ subs' = r.subs
    /\ built' = TRUE
    /\ UNCHANGED <<template, supplied, options, request>>

(***************************************************************************)
(* REQUEST: execute, lines 100-110 and 125-136.                            *)
(***************************************************************************)

\* line 47
DefaultConverter == 
    <<"A", "M", "I", "X", "m", "l", "T", "o", "J", "s", "o", "n", ".",
     "x", "s", "l">>
\* a converter a caller may ask for instead
TextConverter == 
    <<"A", "M", "I", "X", "m", "l", "T", "o", "T", "e", "x", "t", ".",
     "x", "s", "l">>
\* the endpoint the client was constructed with (line 67)
Endpoint == <<"h", "t", "t", "p", ":", "/", "/", "h", "/", "A", "M", "I">>

\* the characters encodeURIComponent leaves as they are
IsUnreserved(c) == IsAlnum(c) \/ c \in {"-", "_", ".", "!", "~", "*", "'", "(", ")"}

\* encodeURIComponent, for one character
EncodeChar(c) ==
    CASE IsUnreserved(c) -> <<c>>
      [] c = " " -> <<"%", "2", "0">>
      [] c = DQ -> <<"%", "2", "2">>
      [] c = "=" -> <<"%", "3", "D">>
      [] c = "?" -> <<"%", "3", "F">>
      [] c = "&" -> <<"%", "2", "6">>
      [] c = "%" -> <<"%", "2", "5">>
      [] c = BS -> <<"%", "5", "C">>
      [] c = NL -> <<"%", "0", "A">>
      [] c = TAB -> <<"%", "0", "9">>
      [] OTHER -> <<"%", c>>

\* the characters of t encoded one by one (the text is halved, not peeled, to
\* keep the evaluation shallow)
RECURSIVE EncodeText(_)
EncodeText(t) ==
    IF Len(t) = 0 THEN <<>>
    ELSE IF Len(t) = 1 THEN EncodeChar(t[1])
    ELSE LET h == Len(t) \div 2
         IN  EncodeText(SubSeq(t, 1, h)) \o EncodeText(SubSeq(t, h + 1, Len(t)))

\* String(v), the conversion encodeURIComponent applies to its argument
ToText(v) ==
    CASE v.type = "string" -> v.text
      [] v.type = "number" -> v.text
      [] v.type = "null" -> <<"n", "u", "l", "l">>
      [] OTHER -> <<"u", "n", "d", "e", "f", "i", "n", "e", "d">>

\* encodeURIComponent(v)
EncodeURIComponent(v) == EncodeText(ToText(v))

\* one property of an object literal being set: an existing key keeps its
\* place and takes the new value, a new key goes last
SetField(fields, k, v) ==
    IF \E n \in 1..Len(fields) : fields[n].k = k
    THEN [n \in 1..Len(fields) |-> IF fields[n].k = k THEN [k |-> k, v |-> v] ELSE fields[n]]
    ELSE Append(fields, [k |-> k, v |-> v])

RECURSIVE Spread(_, _)
Spread(fields, extras) ==
    IF extras = <<>> THEN fields
    ELSE Spread(SetField(fields, Head(extras).k, Head(extras).v), Tail(extras))

\* lines 125-129: {Command: command, Converter: converter, ...extras}
Data(cmd, conv, extras) ==
    Spread(<<[k |-> <<"C", "o", "m", "m", "a", "n", "d">>, v |-> Str(cmd)], [k |-> <<"C", "o", "n", "v", "e", "r", "t", "e", "r">>, v |-> Str(conv)]>>, extras)

\* line 131: the entries as k=v, joined by &
RECURSIVE Body(_)
Body(fields) ==
    IF fields = <<>> THEN <<>>
    ELSE EncodeText(Head(fields).k) \o <<"=">> \o EncodeURIComponent(Head(fields).v)
         \o (IF Len(fields) > 1 THEN <<"&">> ELSE <<>>) \o Body(Tail(fields))

\* line 136
UrlWithParameters(endpoint, body) == endpoint \o <<"?">> \o body

\* line 105: options.converter || this.#converter, trimmed (an option that
\* is absent or empty is the empty text)
Converter(opts) == Trim(IF opts.converter = <<>> THEN DefaultConverter ELSE opts.converter)

\* lines 125-142: data, body, urlWithParameters and the branch on the converter
Request(cmd, opts) ==
    LET data == Data(cmd, Converter(opts), opts.extras)
        body == Body(data)
    IN  [ready |-> TRUE, data |-> data, body |-> body,
         url |-> UrlWithParameters(Trim(Endpoint), body),
         json |-> Converter(opts) = DefaultConverter]

\* lines 125-142, after the substitution of lines 114-121
BuildRequest ==
    /\ built
    /\ ~request.ready
    /\ request' = Request(command, options)
    /\ UNCHANGED <<command, params, template, supplied, subs, built, options>>

(* The entry points: what each passes to execute (lines 408-501).  The     *)
(* command and the parameters of a plain execute, and the credentials of   *)
(* the session wrappers, are the caller's: one of each is modelled.        *)
NoCert == <<[k |-> <<"N", "o", "C", "e", "r", "t">>, v |-> Null]>>

GetSessionInfoUserPass == 
    <<"G", "e", "t", "S", "e", "s", "s", "i", "o", "n", "I", "n", "f",
     "o", " ", "-", "A", "M", "I", "U", "s", "e", "r", "=", "?", " ",
     "-", "A", "M", "I", "P", "a", "s", "s", "=", "?">>
GetSessionInfoCode == 
    <<"G", "e", "t", "S", "e", "s", "s", "i", "o", "n", "I", "n", "f",
     "o", " ", "-", "A", "M", "I", "U", "s", "e", "r", "=", DQ, "_",
     "_", "o", "i", "d", "c", "_", "c", "o", "d", "e", "_", "_", DQ,
     " ", "-", "A", "M", "I", "P", "a", "s", "s", "=", "?">>
GetSessionInfoToken == 
    <<"G", "e", "t", "S", "e", "s", "s", "i", "o", "n", "I", "n", "f",
     "o", " ", "-", "A", "M", "I", "U", "s", "e", "r", "=", DQ, "_",
     "_", "o", "i", "d", "c", "_", "t", "o", "k", "e", "n", "_", "_",
     DQ, " ", "-", "A", "M", "I", "P", "a", "s", "s", "=", "?">>
GetSessionInfo == 
    <<"G", "e", "t", "S", "e", "s", "s", "i", "o", "n", "I", "n", "f",
     "o">>

Wrappers == {"signInByCode", "signInByToken", "signInByPassword", "signInByCertificate", "signOut"}

EntryPoints == {"execute"} \cup Wrappers

EntryCommand(e) ==
    CASE e = "signInByCode" -> GetSessionInfoCode
      [] e = "signInByToken" -> GetSessionInfoToken
      [] e = "signInByPassword" -> GetSessionInfoUserPass
      [] e = "signInByCertificate" -> GetSessionInfo
      [] e = "signOut" -> GetSessionInfoUserPass
      [] OTHER -> 
    <<"L", "i", "s", "t", "U", "s", "e", "r", "s", " ", "-", "r", "o",
     "l", "e", "=", "?">>

EntryParams(e) ==
    CASE e = "signInByCode" -> <<Str(<<"c">>)>>
      [] e = "signInByToken" -> <<Str(<<"t">>)>>
      [] e = "signInByPassword" -> <<Str(<<"u">>), Str(<<"p", DQ>>)>>
      [] e = "signInByCertificate" -> <<>>
      [] e = "signOut" -> <<Str(<<>>), Str(<<>>)>>
      [] OTHER -> <<Str(<<"v">>)>>

EntryExtras(e) ==
    CASE e \in {"signInByCode", "signInByToken", "signInByPassword", "signOut"} -> NoCert
      [] OTHER -> <<>>

\* lines 104-136: the diagnostic URL of a call
RequestUrl(e, conv) ==
    UrlWithParameters(Trim(Endpoint),
        Body(Data(Substitute(EntryCommand(e), EntryParams(e)).out, Trim(conv), EntryExtras(e))))

(***************************************************************************)
(* PAYLOADS.  Messages are strings; an envelope is what a response body    *)
(* decodes to in the JSON format, a text what it decodes to otherwise.     *)
(***************************************************************************)

Envelope(info, error, rowsets) ==
    [kind |-> "envelope", info |-> info, error |-> error, rowsets |-> rowsets, text |-> ""]

TextPayload(t) ==
    [kind |-> "text", info |-> <<>>, error |-> <<>>, rowsets |-> <<>>, text |-> t]

\* the TypeError a handler throws on row.field.forEach when a row has no field
TypeErrorPayload ==
    [kind |-> "TypeError", info |-> <<>>, error |-> <<>>, rowsets |-> <<>>, text |-> ""]

NoPayload ==
    [kind |-> "none", info |-> <<>>, error |-> <<>>, rowsets |-> <<>>, text |-> ""]

\* an argument a caller of resolve or reject left out, or a handler was not given
NoValue == "<undefined>"

\* line 53
ErrorMessage == "resource temporarily unreachable"

\* a plausible slip: the message filed among the informational messages
ErrorAsInfo(message) == Envelope(<<message>>, <<>>, <<>>)

\* lines 84-87: #error(message)
Error(message) == Envelope(<<>>, <<message>>, <<>>)

\* JSPath.apply('.AMIMessage.info.$', data)
JSPathInfo(data) == data.info

\* JSPath.apply('.AMIMessage.error.$', data)
JSPathError(data) == data.error

\* Array.prototype.join('. ')
RECURSIVE Join(_)
Join(msgs) ==
    IF msgs = <<>> THEN ""
    ELSE IF Len(msgs) = 1 THEN Head(msgs)
    ELSE Head(msgs) \o ". " \o Join(Tail(msgs))

\* a field of a row: its @name and its $
Field(n, v) == [name |-> n, value |-> v]
\* a row with its field list, and a row that has none
Row(fields) == [hasField |-> TRUE, field |-> fields]
BareRow == [hasField |-> FALSE, field |-> <<>>]
Rowset(type, rows) == [type |-> type, rows |-> rows]

\* the rowsets the modelled service answers with
NoRowsets == <<>>

SessionRowsets ==
    <<Rowset("user", <<Row(<<Field("AMIUser", "alice"), Field("valid", "true")>>)>>),
      Rowset("role", <<Row(<<Field("name", "admin"), Field("project", "x")>>),
                       Row(<<Field("name", "user"), Field("project", "y")>>)>>),
      Rowset("bookmark", <<>>)>>

DuplicateRowsets ==
    <<Rowset("role", <<Row(<<Field("name", "admin"), Field("project", "x")>>),
                       Row(<<Field("project", "y"), Field("name", "admin")>>)>>),
      Rowset("dashboard", <<Row(<<Field("hash", "h"), Field("name", "d")>>)>>)>>

BareRowRowsets ==
    <<Rowset("user", <<Row(<<Field("AMIUser", "alice")>>)>>),
      Rowset("role", <<BareRow>>)>>

\* a role row and a bookmark row that carry no field named after their key
KeylessRowsets ==
    <<Rowset("role", <<Row(<<Field("project", "z")>>),
                       Row(<<Field("name", "admin")>>)>>),
      Rowset("bookmark", <<Row(<<Field("title", "t")>>)>>)>>

RowsetChoices == {NoRowsets, SessionRowsets, DuplicateRowsets, BareRowRowsets, KeylessRowsets}

InfoTexts == {"ok"}
ErrorTexts == {"bad password"}

\* what a body may decode to in the JSON format
Envelopes ==
    {Envelope(i, e, r) : i \in SeqsUpTo(InfoTexts, MaxMsgs),
                         e \in SeqsUpTo(ErrorTexts, MaxMsgs),
                         r \in RowsetChoices}

\* what a body may decode to in the other formats
Texts == {TextPayload("<html>"), TextPayload("")}

Statuses == {200, 500}

(***************************************************************************)
(* EXECUTOR: execute, lines 140-264.                                       *)
(***************************************************************************)

\* the calls a caller may make; callers is the set of those the callers make
Invocations == {1, 2}

(* invocation[i] is the state of call i: the closure of its execute        *)
(* (converter, url, inTime, the timer, the transport and the decoding),    *)
(* every resolve and reject call it made, the promise it returned, and the *)
(* same for the promise of the session wrapper, if it came through one.    *)
VARIABLES callers, invocation

execVars == <<callers, invocation>>

vars == <<command, params, template, supplied, subs, built, options, request, callers, invocation>>

Pending == [state |-> "pending", value |-> NoPayload]

NotStarted ==
    [entry |-> "none", converter |-> <<>>, url |-> <<>>,
     fetch |-> "none", status |-> 0, decode |-> "none", data |-> NoPayload,
     timer |-> "none", inTime |-> FALSE,
     window |-> "open", unsettledAtExpiry |-> FALSE,
     calls |-> <<>>, promise |-> [state |-> "none", value |-> NoPayload],
     wrapper |-> "none", wcalls |-> <<>>,
     wpromise |-> [state |-> "none", value |-> NoPayload]]

\* lines 140-170, the executor of new Promise: inTime, setTimeout, fetch
Started(e, conv) ==
    [NotStarted EXCEPT
        !.entry = e,
        !.converter = Trim(conv),
        !.url = RequestUrl(e, conv),
        !.fetch = "pending",
        !.timer = "armed",
        !.inTime = TRUE,
        !.promise = Pending,
        !.wrapper = IF e \in Wrappers THEN "waiting" ELSE "none",
        !.wpromise = IF e \in Wrappers THEN Pending ELSE @]

\* line 142
IsJSON(inv) == inv.converter = DefaultConverter

(* A native promise: the first resolve or reject settles it, with the      *)
(* first argument of the call; a later call changes nothing.               *)
Settle(p, fn, args) ==
    IF p.state = "pending"
    THEN [state |-> IF fn = "resolve" THEN "fulfilled" ELSE "rejected", value |-> args[1]]
    ELSE p

\* what a then or catch handler of a settled promise is called with
HandlerArgs(p) == <<p.value>>

\* the n-th parameter of a handler called with args
Arg(args, n) == IF n <= Len(args) THEN args[n] ELSE NoValue

\* execute's resolve(...) or reject(...)
Call(inv, fn, args) ==
    [inv EXCEPT !.calls = Append(@, [fn |-> fn, args |-> args]),
                !.promise = Settle(@, fn, args)]

\* a plausible slip: the finally callback leaves the timer running
KeepTimeout(t) == t

\* lines 172 and 238: clearTimeout(timeoutId)
ClearTimeout(t) == IF t = "armed" THEN "cleared" ELSE t

\* a plausible slip: the completion handlers do not look at the flag
IgnoreInTime(inv) == TRUE

\* lines 176, 200, 242, 256: if(inTime)
InTime(inv) == inv.inTime

\* a plausible slip: an envelope without informational message is no success
SuccessNeedsInfo(info, error) == Len(error) = 0 /\ Len(info) > 0

\* line 183: if(error.length === 0)
IsSuccess(info, error) == Len(error) = 0

\* lines 152 and 218: the arguments of the timer's reject
TimeoutArgs(inv) ==
    IF IsJSON(inv) THEN <<Error("timeout"), "timeout", inv.url>>
    ELSE <<TextPayload("timeout"), "timeout", inv.url>>

\* lines 194, 202, 250, 258: the arguments of the reject of both catch callbacks
UnreachableArgs(inv) ==
    IF IsJSON(inv) THEN <<Error(ErrorMessage), ErrorMessage, inv.url>>
    ELSE <<TextPayload(ErrorMessage), ErrorMessage, inv.url>>

\* lines 178-190 and 244-246: the callback of response.json() or response.text()
Decoded(inv, d) ==
    IF IsJSON(inv)
    THEN LET info == JSPathInfo(d)
             error == JSPathError(d)
         IN  IF IsSuccess(info, error)
             THEN Call(inv, "resolve", <<d, Join(info), inv.url>>)
             ELSE Call(inv, "reject", <<d, Join(error), inv.url>>)
    ELSE Call(inv, "resolve", <<d, d.text, inv.url>>)

\* a call of execute, directly or from a session wrapper
Execute(i, e, conv) ==
    /\ i \in callers
    /\ invocation[i].fetch = "none"
    /\ invocation' = [invocation EXCEPT ![i] = Started(e, conv)]
    /\ UNCHANGED <<callers, builderVars>>

\* a plausible slip: inTime kept in a field of the client instead of a
\* variable of the call, so that one timer's callback clears it for every call
TimerFiresShared(i) ==
    /\ invocation[i].timer = "armed"
    /\ LET inv == invocation[i]
           rejected == Call(inv, "reject", TimeoutArgs(inv))
       IN  invocation' = [j \in Invocations |->
               IF j = i
               THEN [rejected EXCEPT !.inTime = FALSE,
                                     !.timer = "fired",
                                     !.window = "expired",
                                     !.unsettledAtExpiry = (inv.promise.state = "pending")]
               ELSE [invocation[j] EXCEPT !.inTime = FALSE]]
    /\ UNCHANGED <<callers, builderVars>>

\* lines 150-156 and 216-222: the timer's callback, when the window elapses
TimerFires(i) ==
    /\ invocation[i].timer = "armed"
    /\ LET inv == invocation[i]
           rejected == Call(inv, "reject", TimeoutArgs(inv))
       IN  invocation' = [invocation EXCEPT ![i] =
               [rejected EXCEPT !.inTime = FALSE,
                                !.timer = "fired",
                                !.window = "expired",
                                !.unsettledAtExpiry = (inv.promise.state = "pending")]]
    /\ UNCHANGED <<callers, builderVars>>

\* the window elapses after clearTimeout: no callback runs
WindowElapses(i) ==
    /\ invocation[i].timer = "cleared"
    /\ invocation[i].window = "open"
    /\ LET inv == invocation[i] IN
         invocation' = [invocation EXCEPT ![i] =
             [inv EXCEPT !.window = "expired",
                         !.unsettledAtExpiry = (inv.promise.state = "pending")]]
    /\ UNCHANGED <<callers, builderVars>>

\* fetch fulfils with a response: finally (lines 170-172), then (lines 174-196)
FetchFulfils(i, st) ==
    /\ invocation[i].fetch = "pending"
    /\ LET inv == [invocation[i] EXCEPT !.fetch = "fulfilled",
                                        !.status = st,
                                        !.timer = ClearTimeout(@)]
       IN  invocation' = [invocation EXCEPT ![i] =
               IF InTime(inv) THEN [inv EXCEPT !.decode = "pending"] ELSE inv]
    /\ UNCHANGED <<callers, builderVars>>

\* fetch rejects: finally (lines 170-172), catch (lines 198-204)
FetchRejects(i) ==
    /\ invocation[i].fetch = "pending"
    /\ LET inv == [invocation[i] EXCEPT !.fetch = "rejected",
                                        !.timer = ClearTimeout(@)]
       IN  invocation' = [invocation EXCEPT ![i] =
               IF InTime(inv) THEN Call(inv, "reject", UnreachableArgs(inv)) ELSE inv]
    /\ UNCHANGED <<callers, builderVars>>

\* the body decodes to d: lines 178-190 and 244-246
DecodeSucceeds(i, d) ==
    /\ invocation[i].decode = "pending"
    /\ d \in IF IsJSON(invocation[i]) THEN Envelopes ELSE Texts
    /\ invocation' = [invocation EXCEPT ![i] =
           Decoded([@ EXCEPT !.decode = "done", !.data = d], d)]
    /\ UNCHANGED <<callers, builderVars>>

\* the body does not decode: lines 192-195 and 248-251
DecodeFails(i) ==
    /\ invocation[i].decode = "pending"
    /\ invocation' = [invocation EXCEPT ![i] =
           Call([@ EXCEPT !.decode = "failed"], "reject", UnreachableArgs(@))]
    /\ UNCHANGED <<callers, builderVars>>

(***************************************************************************)
(* SESSION WRAPPERS: #guest and #getUserInfo, lines 271-397.               *)
(***************************************************************************)

\* {}
EmptyMap == <<>>

\* m[k] = v on an object
Put(m, k, v) == [x \in DOMAIN m \cup {k} |-> IF x = k THEN v ELSE m[x]]

\* lines 271-289
Guest ==
    [AMIUser |-> "guest", guestUser |-> "guest",
     clientDNInAMI |-> "", issuerDNInAMI |-> "",
     clientDNInSession |-> "", issuerDNInSession |-> "",
     notBefore |-> "", notAfter |-> "", mqttToken |-> "",
     firstName |-> "guest", lastName |-> "guest",
     email |-> "N/A", country |-> "N/A", valid |-> "false"]

\* JSPath.apply('..rowset{.@type==="t"}.row', data)
RECURSIVE RowsOfType(_, _)
RowsOfType(rowsets, t) ==
    IF rowsets = <<>> THEN <<>>
    ELSE (IF Head(rowsets).type = t THEN Head(rowsets).rows ELSE <<>>)
         \o RowsOfType(Tail(rowsets), t)

\* the .field step of a path: a row without field list contributes nothing
RECURSIVE FieldsOfRows(_)
FieldsOfRows(rows) ==
    IF rows = <<>> THEN <<>>
    ELSE (IF Head(rows).hasField THEN Head(rows).field ELSE <<>>) \o FieldsOfRows(Tail(rows))

\* lines 314-317 and 321-324: a mapping filled field by field
RECURSIVE FoldFields(_, _)
FoldFields(m, fields) ==
    IF fields = <<>> THEN m
    ELSE FoldFields(Put(m, Head(fields).name, Head(fields).value), Tail(fields))

\* lines 330-341: the key of a row, '' unless a field named keyName sets it
RECURSIVE RowKey(_, _, _)
RowKey(key, fields, keyName) ==
    IF fields = <<>> THEN key
    ELSE RowKey(IF Head(fields).name = keyName THEN Head(fields).value ELSE key,
                Tail(fields), keyName)

\* a plausible slip: a key that is already there keeps its first mapping
RECURSIVE FoldRowsFirstWins(_, _, _)
FoldRowsFirstWins(m, rows, keyName) ==
    IF rows = <<>> THEN m
    ELSE LET k == RowKey("", Head(rows).field, keyName)
         IN  FoldRowsFirstWins(IF k \in DOMAIN m THEN m
                               ELSE Put(m, k, FoldFields(EmptyMap, Head(rows).field)),
                               Tail(rows), keyName)

\* lines 328-344, 348-364, 368-384: a mapping filled row by row
RECURSIVE FoldRows(_, _, _)
FoldRows(m, rows, keyName) ==
    IF rows = <<>> THEN m
    ELSE FoldRows(Put(m, RowKey("", Head(rows).field, keyName),
                      FoldFields(EmptyMap, Head(rows).field)),
                  Tail(rows), keyName)

\* row.field.forEach throws a TypeError on a row that has no field
Throws(data) ==
    \E t \in {"role", "bookmark", "dashboard"} :
        \E n \in 1..Len(RowsOfType(data.rowsets, t)) : ~RowsOfType(data.rowsets, t)[n].hasField

UserInfo(data) == FoldFields(EmptyMap, FieldsOfRows(RowsOfType(data.rowsets, "user")))
AwfInfo(data) == FoldFields(EmptyMap, FieldsOfRows(RowsOfType(data.rowsets, "awf")))
RoleInfo(data) == FoldRows(EmptyMap, RowsOfType(data.rowsets, "role"), "name")
BookmarkInfo(data) == FoldRows(EmptyMap, RowsOfType(data.rowsets, "bookmark"), "hash")
DashboardInfo(data) == FoldRows(EmptyMap, RowsOfType(data.rowsets, "dashboard"), "hash")

\* the wrapper's resolve(...) or reject(...)
WrapperCall(inv, fn, args) ==
    [inv EXCEPT !.wcalls = Append(@, [fn |-> fn, args |-> args]),
                !.wpromise = Settle(@, fn, args),
                !.wrapper = "done"]

\* lines 390-393: the catch callback, called with args
GetUserInfoCatch(inv, args) ==
    WrapperCall(inv, "reject",
        <<Arg(args, 1), Arg(args, 2), Guest, EmptyMap, EmptyMap, EmptyMap, EmptyMap>>)

\* lines 304-388: the then callback, called with args; what it throws goes to
\* the catch callback chained on it
GetUserInfoThen(inv, args) ==
    LET data == Arg(args, 1)
        message == Arg(args, 2)
    IN  IF Throws(data)
        THEN GetUserInfoCatch(inv, <<TypeErrorPayload>>)
        ELSE WrapperCall(inv, "resolve",
                 <<data, message, UserInfo(data), RoleInfo(data), BookmarkInfo(data),
                   DashboardInfo(data), AwfInfo(data)>>)

\* execute's promise is fulfilled: the wrapper's then callback runs
SessionThen(i) ==
    /\ invocation[i].wrapper = "waiting"
    /\ invocation[i].promise.state = "fulfilled"
    /\ invocation' = [invocation EXCEPT ![i] = GetUserInfoThen(@, HandlerArgs(@.promise))]
    /\ UNCHANGED <<callers, builderVars>>

\* execute's promise is rejected: the wrapper's catch callback runs
SessionCatch(i) ==
    /\ invocation[i].wrapper = "waiting"
    /\ invocation[i].promise.state = "rejected"
    /\ invocation' = [invocation EXCEPT ![i] = GetUserInfoCatch(@, HandlerArgs(@.promise))]
    /\ UNCHANGED <<callers, builderVars>>

(***************************************************************************)
(* SPECIFICATIONS.                                                         *)
(***************************************************************************)

ExecutorIdle == invocation = [i \in Invocations |-> NotStarted]

\* one caller, any entry point, any converter
Init ==
    /\ callers = {1}
    /\ ExecutorIdle
    /\ BuilderIdle

Next ==
    \/ \E i \in Invocations, e \in EntryPoints, conv \in {DefaultConverter, TextConverter} :
           Execute(i, e, conv)
    \/ \E i \in Invocations : TimerFires(i)
    \/ \E i \in Invocations : WindowElapses(i)
    \/ \E i \in Invocations, st \in Statuses : FetchFulfils(i, st)
    \/ \E i \in Invocations : FetchRejects(i)
    \/ \E i \in Invocations, d \in Envelopes \cup Texts : DecodeSucceeds(i, d)
    \/ \E i \in Invocations : DecodeFails(i)
    \/ \E i \in Invocations : SessionThen(i)
    \/ \E i \in Invocations : SessionCatch(i)

Spec == Init /\ [][Next]_vars

\* what the bodies decode to when two calls are in flight
PairPayloads ==
    {Envelope(<<"ok">>, <<>>, NoRowsets), Envelope(<<>>, <<"bad password">>, NoRowsets),
     TextPayload("<html>")}

\* two callers of execute on one client, any converter each
InitPair ==
    /\ callers = {1, 2}
    /\ ExecutorIdle
    /\ BuilderIdle

NextPair ==
    \/ \E i \in Invocations, conv \in {DefaultConverter, TextConverter} :
           Execute(i, "execute", conv)
    \/ \E i \in Invocations : TimerFires(i)
    \/ \E i \in Invocations : WindowElapses(i)
    \/ \E i \in Invocations, st \in Statuses : FetchFulfils(i, st)
    \/ \E i \in Invocations : FetchRejects(i)
    \/ \E i \in Invocations, d \in PairPayloads : DecodeSucceeds(i, d)
    \/ \E i \in Invocations : DecodeFails(i)

SpecPair == InitPair /\ [][NextPair]_vars

\* the command builder alone, on every template and parameter sequence
NextBuild == BuildCommand /\ UNCHANGED execVars

InitBuild == BuildInputs /\ callers = {} /\ ExecutorIdle

SpecBuild == InitBuild /\ [][NextBuild]_vars

\* the templates, parameters, converters and extras a request is built from
RequestTemplates == {<<>>, <<"-", "a", "=", "?">>, <<"L", " ", "-", "a", "=", "?">>}

RequestParams == {<<>>, <<Str(<<"v">>)>>, <<Null>>}

ConverterChoices == {<<>>, DefaultConverter, TextConverter, <<" ">> \o DefaultConverter \o <<" ">>}

ExtrasChoices ==
    {<<>>, NoCert,
     <<[k |-> <<"C", "o", "n", "v", "e", "r", "t", "e", "r">>, v |-> Str(TextConverter)]>>,
     <<[k |-> <<"C", "o", "m", "m", "a", "n", "d">>, v |-> Str(<<"x">>)]>>,
     <<[k |-> <<"k">>, v |-> Undefined], [k |-> <<"j">>, v |-> Str(<<"a", " ", "b">>)]>>,
     <<[k |-> <<"k">>, v |-> Str(<<>>)]>>}

\* a caller about to execute a template with parameters, a converter and extras
RequestInputs ==
    /\ template \in RequestTemplates
    /\ supplied \in RequestParams
    /\ command = template
    /\ params = supplied
    /\ subs = <<>>
    /\ built = FALSE
    /\ options \in [converter : ConverterChoices, extras : ExtrasChoices]
    /\ request = NoRequest

\* the command builder and the request builder, on these
InitRequest == RequestInputs /\ callers = {} /\ ExecutorIdle

NextRequest ==
    \/ BuildCommand /\ UNCHANGED execVars
    \/ BuildRequest /\ UNCHANGED execVars

SpecRequest == InitRequest /\ [][NextRequest]_vars

\* the command builder on one placeholder and every string value
InitEscape == EscapeInputs /\ callers = {} /\ ExecutorIdle

SpecEscape == InitEscape /\ [][NextBuild]_vars

(***************************************************************************)
(* PROPERTIES OF THE EXECUTOR (specification Spec).                        *)
(***************************************************************************)

\* the message a resolve or reject call was given
MessageOf(call) == call.args[2]

\* C1: every invocation makes at most one resolve or reject call, whatever
\* the order of timer expiry, transport success or failure and decoding
\* success or failure.
C1_AtMostOnceSettlement ==
    \A i \in Invocations : Len(invocation[i].calls) <= 1

\* C1 witness: the timer fired and the transport completed, both for one
\* invocation, which made exactly one call.
C1_Witness ==
    \E i \in Invocations :
        /\ invocation[i].timer = "fired"
        /\ invocation[i].fetch \in {"fulfilled", "rejected"}
        /\ Len(invocation[i].calls) = 1

\* C2: once the timer has fired before the transport completed, the only
\* call ever made is the timeout rejection (an envelope whose sole error is
\* 'timeout' in the JSON format, the string 'timeout' otherwise), and the
\* promise stays rejected with it whatever the transport does afterwards.
C2_TimeoutWins ==
    \A i \in Invocations :
        LET inv == invocation[i]
            payload == IF inv.converter = DefaultConverter
                       THEN Envelope(<<>>, <<"timeout">>, <<>>)
                       ELSE TextPayload("timeout")
        IN  inv.timer = "fired" =>
                /\ inv.calls = <<[fn |-> "reject", args |-> <<payload, "timeout", inv.url>>]>>
                /\ inv.promise = [state |-> "rejected", value |-> payload]
                /\ inv.decode = "none"

\* C2 witness: the transport completed after the timer had fired.
C2_Witness ==
    \E i \in Invocations :
        /\ invocation[i].timer = "fired"
        /\ invocation[i].fetch = "fulfilled"
        /\ invocation[i].promise.state = "rejected"

\* C3: if the promise is unsettled when the timeout window elapses, it is
\* rejected with the timeout classification.
C3_TimeoutAlwaysSurfaced ==
    \A i \in Invocations :
        LET inv == invocation[i] IN
        (inv.window = "expired" /\ inv.unsettledAtExpiry) =>
            /\ inv.promise.state = "rejected"
            /\ MessageOf(inv.calls[1]) = "timeout"

\* C4: in the JSON format, when the body decoded to an envelope, the promise
\* is fulfilled if and only if the envelope has no error message and
\* rejected if and only if it has one or more, whatever the number of
\* informational messages.
C4_Classification ==
    \A i \in Invocations :
        LET inv == invocation[i] IN
        (inv.converter = DefaultConverter /\ inv.decode = "done") =>
            /\ inv.promise.state = "fulfilled" <=> Len(inv.data.error) = 0
            /\ inv.promise.state = "rejected" <=> Len(inv.data.error) >= 1
            /\ inv.promise.value = inv.data

\* C4 witness: an envelope with no message at all was decoded and fulfilled
\* the promise.
C4_Witness ==
    \E i \in Invocations :
        /\ invocation[i].converter = DefaultConverter
        /\ invocation[i].decode = "done"
        /\ invocation[i].data.error = <<>>
        /\ invocation[i].data.info = <<>>
        /\ invocation[i].promise.state = "fulfilled"

\* C5: a transport failure in time rejects with 'service temporarily
\* unreachable', a decoding failure with 'resource temporarily unreachable'.
C5_FailureTaxonomy ==
    \A i \in Invocations :
        LET inv == invocation[i] IN
        /\ (inv.fetch = "rejected" /\ inv.timer # "fired") =>
               /\ Len(inv.calls) = 1
               /\ inv.calls[1].fn = "reject"
               /\ MessageOf(inv.calls[1]) = "service temporarily unreachable"
        /\ inv.decode = "failed" =>
               /\ Len(inv.calls) = 1
               /\ inv.calls[1].fn = "reject"
               /\ MessageOf(inv.calls[1]) = "resource temporarily unreachable"

\* C6: on every failure the caller's rejection handler obtains the payload,
\* the message and the diagnostic URL that reject was called with.
C6_Propagation ==
    \A i \in Invocations :
        LET inv == invocation[i] IN
        inv.promise.state = "rejected" =>
            /\ Len(HandlerArgs(inv.promise)) = 3
            /\ HandlerArgs(inv.promise) = inv.calls[1].args

\* C7: on every failure of execute the caller of a session wrapper obtains
\* the failure payload and message, the guest identity and four empty
\* mappings.
C7_GuestFallback ==
    \A i \in Invocations :
        LET inv == invocation[i]
            got == HandlerArgs(inv.wpromise)
        IN  (inv.promise.state = "rejected" /\ inv.wrapper = "done") =>
                /\ inv.wpromise.state = "rejected"
                /\ Len(got) = 7
                /\ got[1] = inv.calls[1].args[1]
                /\ got[2] = inv.calls[1].args[2]
                /\ got[3] = Guest
                /\ \A n \in 4..7 : got[n] = EmptyMap

\* C13: once the transport has completed, with a response or with a
\* failure, before the timer fired, the timer is cancelled and no timeout
\* rejection is made, then or later.
C13_TimerCancellation ==
    \A i \in Invocations :
        LET inv == invocation[i] IN
        (inv.fetch \in {"fulfilled", "rejected"} /\ inv.timer # "fired") =>
            /\ inv.timer = "cleared"
            /\ \A n \in 1..Len(inv.calls) : MessageOf(inv.calls[n]) # "timeout"

\* C13 witness: the transport failed in time, the window has elapsed since,
\* and the only call made is the rejection of the transport failure.
C13_Witness ==
    \E i \in Invocations :
        /\ invocation[i].fetch = "rejected"
        /\ invocation[i].timer = "cleared"
        /\ invocation[i].window = "expired"
        /\ Len(invocation[i].calls) = 1
        /\ MessageOf(invocation[i].calls[1]) = "resource temporarily unreachable"

\* C14: in the JSON format every reject call is given an envelope with at
\* least one error message and, as its message, these error messages joined
\* by '. '; when the envelope was made by the client (timeout, transport
\* failure, decoding failure) its only error message is the message.
C14_UniformErrorText ==
    \A i \in Invocations :
        LET inv == invocation[i] IN
        inv.converter = DefaultConverter =>
            \A n \in 1..Len(inv.calls) :
                LET payload == inv.calls[n].args[1]
                    message == MessageOf(inv.calls[n])
                IN  inv.calls[n].fn = "reject" =>
                        /\ payload.kind = "envelope"
                        /\ Len(payload.error) >= 1
                        /\ message = Join(payload.error)
                        /\ inv.decode # "done" => payload.error = <<message>>

\* C14 witness: an envelope with two error messages was rejected with both,
\* joined.
C14_Witness ==
    \E i \in Invocations :
        /\ invocation[i].converter = DefaultConverter
        /\ invocation[i].decode = "done"
        /\ Len(invocation[i].data.error) = 2
        /\ invocation[i].calls =
               <<[fn |-> "reject",
                  args |-> <<invocation[i].data, "bad password. bad password",
                             invocation[i].url>>]>>

\* C15: in the other formats a response that arrived in time with a status
\* outside 200..299 never fulfils the promise; the promise is fulfilled only
\* for a successful response whose body decoded as text.
C15_NonSuccessStatusRejects ==
    \A i \in Invocations :
        LET inv == invocation[i] IN
        (inv.fetch = "fulfilled" /\ inv.converter # DefaultConverter /\ inv.timer # "fired") =>
            /\ inv.status \notin 200..299 => inv.promise.state # "fulfilled"
            /\ inv.promise.state = "fulfilled" =>
                   (inv.status \in 200..299 /\ inv.decode = "done")

(***************************************************************************)
(* PROPERTIES OF CONCURRENT CALLS (specification SpecPair).                *)
(***************************************************************************)

\* the promise of a call as its own events alone decide it: its timer, its
\* transport and its decoding
AloneOutcome(inv) ==
    LET json == inv.converter = DefaultConverter
        timedOut == IF json THEN Envelope(<<>>, <<"timeout">>, <<>>) ELSE TextPayload("timeout")
        unreachable == IF json THEN Envelope(<<>>, <<"resource temporarily unreachable">>, <<>>)
                       ELSE TextPayload("resource temporarily unreachable")
    IN  CASE inv.fetch = "none" -> [state |-> "none", value |-> NoPayload]
          [] inv.fetch # "none" /\ inv.timer = "fired" -> [state |-> "rejected", value |-> timedOut]
          [] inv.timer # "fired" /\ (inv.fetch = "rejected" \/ inv.decode = "failed") ->
                 [state |-> "rejected", value |-> unreachable]
          [] inv.timer # "fired" /\ inv.decode = "done" ->
                 [state |-> IF json /\ inv.data.error # <<>> THEN "rejected" ELSE "fulfilled",
                  value |-> inv.data]
          [] OTHER -> [state |-> "pending", value |-> NoPayload]

\* every call is where its own events alone put it: its guard flag is
\* cleared by its own timer only, its timer is armed until its own transport
\* completes or it fires, its decoding starts when its own transport
\* fulfils in time, and its promise is the outcome of these
RanAsAlone ==
    \A i \in Invocations :
        LET inv == invocation[i] IN
        /\ inv.inTime = (inv.fetch # "none" /\ inv.timer # "fired")
        /\ inv.fetch = "pending" => inv.timer \in {"armed", "fired"}
        /\ inv.fetch \in {"fulfilled", "rejected"} => inv.timer \in {"cleared", "fired"}
        /\ (inv.fetch = "fulfilled" /\ inv.timer = "cleared") <=> inv.decode # "none"
        /\ inv.promise = AloneOutcome(inv)

\* C12: with two calls in flight on one client, every event changes the
\* guard flag, the timer and the outcome of one call only, and leaves each
\* call where its own events alone put it.
C12_Independence ==
    [][/\ \A i, j \in Invocations :
              (i # j /\ invocation[i]' # invocation[i]) => invocation[j]' = invocation[j]
       /\ RanAsAlone']_vars

\* C12 witness: the timer of one call has fired while its transport is still
\* pending, and the other call, whose timer was cancelled, is decoding with
\* its guard flag set.
C12_Witness ==
    \E i, j \in Invocations :
        /\ invocation[i].timer = "fired" /\ invocation[i].fetch = "pending"
        /\ invocation[j].timer = "cleared" /\ invocation[j].decode = "pending"
        /\ invocation[j].inTime

(***************************************************************************)
(* PROPERTIES OF THE SESSION WRAPPERS (specification Spec).                *)
(***************************************************************************)

\* the three keyed mappings: the rowset type, the field that names the key,
\* and the place of the mapping among the arguments of the wrapper's resolve
KeyedMappings ==
    {[type |-> "role", key |-> "name", arg |-> 4],
     [type |-> "bookmark", key |-> "hash", arg |-> 5],
     [type |-> "dashboard", key |-> "hash", arg |-> 6]}

\* the positions of the fields of a row that are named n
FieldsNamed(row, n) == {x \in 1..Len(row.field) : row.field[x].name = n}

\* the values the key field takes among rows
KeyValues(rows, keyName) ==
    UNION {{rows[r].field[x].value : x \in FieldsNamed(rows[r], keyName)} : r \in 1..Len(rows)}

\* the key of a row: the value of its key field, the empty string if it has none
KeyOf(row, keyName) ==
    IF FieldsNamed(row, keyName) = {} THEN ""
    ELSE row.field[SetMax(FieldsNamed(row, keyName))].value

\* the field-name -> value mapping of a row
RowMapping(row) ==
    [n \in {row.field[x].name : x \in 1..Len(row.field)} |->
        row.field[SetMax(FieldsNamed(row, n))].value]

\* the last of rows, in payload order, whose key is k
LastRowWithKey(rows, keyName, k) ==
    rows[SetMax({r \in 1..Len(rows) : KeyOf(rows[r], keyName) = k})]

\* the wrappers that passed their mappings to resolve
Normalized(inv) == inv.wcalls # <<>> /\ inv.wcalls[1].fn = "resolve"

\* C11 as stated: on success each keyed mapping has exactly one key per
\* distinct value of the key field among the rows of its rowset, and each
\* key maps to the full mapping of the last row with that key.
C11_RoleFolding ==
    \A i \in Invocations :
        LET inv == invocation[i] IN
        Normalized(inv) =>
            \A km \in KeyedMappings :
                LET rows == RowsOfType(inv.wcalls[1].args[1].rowsets, km.type)
                    m == inv.wcalls[1].args[km.arg]
                IN  /\ DOMAIN m = KeyValues(rows, km.key)
                    /\ \A k \in DOMAIN m : m[k] = RowMapping(LastRowWithKey(rows, km.key, k))

\* C11 as amended: the same, a row without key field counting as a row
\* whose key is the empty string.
C11_RoleFoldingKeyed ==
    \A i \in Invocations :
        LET inv == invocation[i] IN
        Normalized(inv) =>
            \A km \in KeyedMappings :
                LET rows == RowsOfType(inv.wcalls[1].args[1].rowsets, km.type)
                    m == inv.wcalls[1].args[km.arg]
                IN  /\ DOMAIN m = {KeyOf(rows[r], km.key) : r \in 1..Len(rows)}
                    /\ \A k \in DOMAIN m : m[k] = RowMapping(LastRowWithKey(rows, km.key, k))

\* C11 witness: two role rows named admin were folded into one key, which
\* maps to the second row.
C11_Witness ==
    \E i \in Invocations :
        /\ Normalized(invocation[i])
        /\ invocation[i].wcalls[1].args[1].rowsets = DuplicateRowsets
        /\ DOMAIN invocation[i].wcalls[1].args[4] = {"admin"}
        /\ invocation[i].wcalls[1].args[4]["admin"]["project"] = "y"

\* C18: the wrapper's promise is fulfilled exactly when execute's is and
\* rejected exactly when execute's is, whatever rows the payload holds, and
\* the wrapper makes one resolve or reject call.
C18_NormalizerMirrors ==
    \A i \in Invocations :
        LET inv == invocation[i] IN
        inv.wrapper = "done" =>
            /\ inv.wpromise.state = "fulfilled" <=> inv.promise.state = "fulfilled"
            /\ inv.wpromise.state = "rejected" <=> inv.promise.state = "rejected"
            /\ Len(inv.wcalls) = 1

\* C19: on success the caller of a session wrapper obtains the payload, the
\* message and five mappings, and the mapping of a rowset type that is
\* absent from the payload or has no row is the empty mapping.
C19_EmptyRowsetsGiveEmptyMappings ==
    \A i \in Invocations :
        LET inv == invocation[i]
            got == HandlerArgs(inv.wpromise)
            types == <<"", "", "user", "role", "bookmark", "dashboard", "awf">>
        IN  (inv.promise.state = "fulfilled" /\ inv.wpromise.state = "fulfilled") =>
                /\ Len(got) = 7
                /\ \A n \in 3..7 :
                       /\ got[n] # NoValue
                       /\ RowsOfType(inv.data.rowsets, types[n]) = <<>> => got[n] = EmptyMap

(***************************************************************************)
(* PROPERTIES OF THE REQUEST (specification SpecRequest).                  *)
(***************************************************************************)

\* the position of the first c in s (Len(s) + 1 if there is none)
RECURSIVE IndexOf(_, _, _)
IndexOf(s, c, i) == IF i <= Len(s) /\ s[i] # c THEN IndexOf(s, c, i + 1) ELSE i

\* the pieces of s between the occurrences of c
RECURSIVE SplitOn(_, _)
SplitOn(s, c) ==
    LET i == IndexOf(s, c, 1) IN
    IF i > Len(s) THEN <<s>>
    ELSE <<SubSeq(s, 1, i - 1)>> \o SplitOn(SubSeq(s, i + 1, Len(s)), c)

\* the fields of a form-encoded text, each as it is written: key=value
FormFields(text) == {SplitOn(text, "&")[n] : n \in 1..Len(SplitOn(text, "&"))}

\* the query string of a URL: what follows its first question mark
QueryOf(url) == SubSeq(url, IndexOf(url, "?", 1) + 1, Len(url))

\* the values the form-encoded text gives the field named k
ValuesOf(text, k) ==
    {SubSeq(f, Len(k) + 2, Len(f)) :
        f \in {g \in FormFields(text) : Len(g) > Len(k) /\ SubSeq(g, 1, Len(k) + 1) = k \o <<"=">>}}

\* C16: every key of the extras whose value is null or absent is a field of
\* the request body and of the diagnostic query string, with the empty
\* string as its value.
C16_NullExtrasAreEmptyFields ==
    request.ready =>
        \A n \in 1..Len(options.extras) :
            options.extras[n].v \in {Null, Undefined} =>
                /\ EncodeText(options.extras[n].k) \o <<"=">> \in FormFields(request.body)
                /\ EncodeText(options.extras[n].k) \o <<"=">> \in FormFields(QueryOf(request.url))

\* C17: the Command field of the request body is the substituted template
\* and its Converter field is the converter that selects the handling of
\* the response, whatever keys the extras hold.
C17_BodyModeAgreement ==
    request.ready =>
        LET converter == Trim(IF options.converter = <<>> THEN DefaultConverter
                              ELSE options.converter)
        IN  /\ ValuesOf(request.body, <<"C", "o", "m", "m", "a", "n", "d">>)
                   = {EncodeText(command)}
            /\ ValuesOf(request.body, <<"C", "o", "n", "v", "e", "r", "t", "e", "r">>)
                   = {EncodeText(converter)}
            /\ request.json = (converter = DefaultConverter)

(***************************************************************************)
(* PROPERTIES OF THE COMMAND BUILDER (SpecBuild and SpecEscape).           *)
(***************************************************************************)

\* the placeholders of s from position i on, left to right: where each
\* starts and ends, and its name
RECURSIVE PlaceholdersFrom(_, _)
PlaceholdersFrom(s, i) ==
    LET starts == {j \in i..Len(s) : MatchAt(s, j).ok} IN
    IF starts = {} THEN <<>>
    ELSE LET j == SetMin(starts)
         IN  <<[start |-> j, end |-> MatchAt(s, j).end, name |-> MatchAt(s, j).name]>>
             \o PlaceholdersFrom(s, MatchAt(s, j).end + 1)

\* the placeholders of the caller's template
Placeholders == PlaceholdersFrom(Trim(template), 1)

\* the template with its n-th placeholder replaced by the n-th of values,
\* for every n from k on, from the end of placeholder k - 1
RECURSIVE WithValues(_, _, _, _)
WithValues(s, phs, values, k) ==
    LET from == IF k = 1 THEN 1 ELSE phs[k - 1].end + 1 IN
    IF k > Len(phs) THEN SubSeq(s, from, Len(s))
    ELSE SubSeq(s, from, phs[k].start - 1)
         \o Replacement(phs[k].name, values[k])
         \o WithValues(s, phs, values, k + 1)

\* s holds a token the placeholder pattern matches
HasPlaceholder(s) == \E j \in 1..Len(s) : MatchAt(s, j).ok

\* C8: with N placeholders and M >= N parameters, the i-th placeholder is
\* replaced by the i-th parameter for every i in 1..N, and the caller's
\* sequence is left holding its last M - N elements, in order.
C8_ConsumptionOrder ==
    LET N == Len(Placeholders)
        M == Len(supplied)
    IN  (built /\ M >= N) =>
            /\ Len(subs) = N
            /\ \A n \in 1..N : subs[n] = [name |-> Placeholders[n].name, value |-> supplied[n]]
            /\ command = WithValues(Trim(template), Placeholders, supplied, 1)
            /\ params = SubSeq(supplied, N + 1, M)

\* C8 witness: one placeholder, two different parameters, the second left.
C8_Witness ==
    /\ built
    /\ Len(Placeholders) = 1
    /\ Len(supplied) = 2
    /\ supplied[1] # supplied[2]
    /\ params = <<supplied[2]>>

\* a value that brings neither a dash nor a question mark into the command
IsPlain(v) ==
    \/ v.type \in {"number", "null"}
    \/ v.type = "string" /\ \A n \in 1..Len(v.text) : v.text[n] \notin {"-", "?"}

\* C9 as stated: with at least as many parameters as placeholders, whatever
\* their values, the built command holds no token the pattern matches.
C9_NoPlaceholderSurvives ==
    (built /\ Len(supplied) >= Len(Placeholders)) => ~HasPlaceholder(command)

\* C9 as amended: the same, for parameters that are numbers, null, or strings
\* without dash and without question mark.
C9_NoPlaceholderSurvivesPlain ==
    (/\ built
     /\ Len(supplied) >= Len(Placeholders)
     /\ \A n \in 1..Len(Placeholders) : IsPlain(supplied[n]))
        => ~HasPlaceholder(command)

\* C9 witness: two placeholders were replaced by plain values, one of them
\* the empty string.
C9_Witness ==
    /\ built
    /\ Len(Placeholders) = 2
    /\ Len(supplied) >= 2
    /\ IsPlain(supplied[1]) /\ IsPlain(supplied[2])
    /\ supplied[1] = Str(<<>>)

\* every occurrence of the two characters a b in s replaced by c, left to
\* right (String.prototype.replace with a global pattern)
RECURSIVE ReplacePair(_, _, _, _)
ReplacePair(s, a, b, c) ==
    IF Len(s) < 2 THEN s
    ELSE IF s[1] = a /\ s[2] = b THEN <<c>> \o ReplacePair(SubSeq(s, 3, Len(s)), a, b, c)
    ELSE <<s[1]>> \o ReplacePair(Tail(s), a, b, c)

\* the documented escapes undone in reverse order: the quote's, then the
\* newline's, then the backslash's
ReverseOrderUnescape(s) ==
    ReplacePair(ReplacePair(ReplacePair(s, BS, DQ, DQ), BS, "n", NL), BS, BS, BS)

\* the escapes read in one pass, left to right: a backslash and the
\* character after it stand for one character
RECURSIVE OnePassUnescape(_)
OnePassUnescape(s) ==
    IF s = <<>> THEN <<>>
    ELSE IF s[1] = BS /\ Len(s) >= 2
    THEN <<IF s[2] = "n" THEN NL ELSE s[2]>> \o OnePassUnescape(SubSeq(s, 3, Len(s)))
    ELSE <<s[1]>> \o OnePassUnescape(Tail(s))

\* the value has a backslash with the letter n right after it
HasBackslashN(t) == \E n \in 1..(Len(t) - 1) : t[n] = BS /\ t[n + 1] = "n"

\* the command is -a="..." : a dash, the name, an equals sign, two quotes
\* around the rest
IsQuoted(s) ==
    /\ Len(s) >= 5
    /\ SubSeq(s, 1, 4) = <<"-", "a", "=", DQ>>
    /\ s[Len(s)] = DQ

\* the text between the outer quotes
Inner(s) == SubSeq(s, 5, Len(s) - 1)

\* C10 as stated: the text between the outer quotes, unescaped in reverse
\* order, is the parameter value.
C10_EscapingRoundTrip ==
    built => /\ IsQuoted(command)
             /\ ReverseOrderUnescape(Inner(command)) = supplied[1].text

\* C10 as amended: the text between the outer quotes, read in one pass, is
\* the parameter value (so two values never give the same text); unescaped
\* in reverse order it is the value when the value has no backslash followed
\* by the letter n.
C10_EscapingRoundTripOnePass ==
    built => /\ IsQuoted(command)
             /\ OnePassUnescape(Inner(command)) = supplied[1].text
             /\ ~HasBackslashN(supplied[1].text) =>
                    ReverseOrderUnescape(Inner(command)) = supplied[1].text

\* C10 witness: a value holding a backslash, a newline and a double quote
\* was substituted.
C10_Witness ==
    /\ built
    /\ supplied = <<Str(<<BS, NL, DQ>>)>>
    /\ command = <<"-", "a", "=", DQ, BS, BS, BS, "n", BS, DQ, DQ>>

====
